---- MODULE Spec2Model ----
(***************************************************************************)
(* Model of the stock direction predictor: the ingestion batch            *)
(* (scripts/data_ingestion.py), the feature derivation                    *)
(* (scripts/data_preparation.py) and the prediction service (app/main.py).*)
(*                                                                         *)
(* Numbers.  Raw prices and volumes are integers.  Every derived column is *)
(* a record [n, d, r] standing for the IEEE value (n/d)^(1/r):             *)
(*   d > 0            the finite value (n/d)^(1/r)                         *)
(*   d = 0, n = 0     NaN   (0/0, an incomplete rolling window, a shift)   *)
(*   d = 0, n # 0     +/-Inf (x/0 with x # 0)                              *)
(* Floating-point rounding is not modelled.                                *)
(*                                                                         *)
(* Dates.  A date in a CSV file is the string "YYYY-MM-DD", modelled as    *)
(* the triple <<y, m, d>>; pd.to_datetime turns it into a timestamp,       *)
(* modelled as the number of days since Monday 2024-01-01.                 *)
(***************************************************************************)
EXTENDS Integers, Sequences, FiniteSets, TLC

VARIABLES
    rawFile,      \* data/raw_stock_prices.csv: missing, or its rows (bars)
    featFile,     \* data/stock_features.csv: missing, or its rows
    MODEL,        \* app.main.MODEL: "unstarted", "None" or a classifier
    responses,    \* the HTTP responses the service has sent
    tickerIdx,    \* data_ingestion: index of the next ticker of the loop
    data,         \* data_ingestion: the list of fetched frames
    fetched,      \* data_ingestion: tickers whose fetch returned
    ingestPc      \* data_ingestion: "loop", "done" or "crashed"

vars == <<rawFile, featFile, MODEL, responses, tickerIdx, data, fetched, ingestPc>>

\* ------------------------------------------------------------------ bounds
MaxBars == 12
MaxOther == 6
NumTickers == 3
MaxRequests == 2

\* --------------------------------------------------------------- constants
MA_WINDOW == 5
VOL_WINDOW == 10
SPIKE_WINDOW == 5
WEEKEND == 5

\* a file on disk: missing, or present with its rows
NoFile == [exists |-> FALSE, rows |-> <<>>]
File(rows) == [exists |-> TRUE, rows |-> rows]

\* ------------------------------------------------------------------- dates
DaysBefore(m) == IF m = 1 THEN 0 ELSE IF m = 2 THEN 31 ELSE 60

\* pd.to_datetime("YYYY-MM-DD")
to_datetime(s) == DaysBefore(s[2]) + s[3] - 1

\* Timestamp.strftime("%Y-%m-%d")
strftime(t) ==
    IF t < 31 THEN <<2024, 1, t + 1>>
    ELSE IF t < 60 THEN <<2024, 2, t - 30>>
    ELSE <<2024, 3, t - 59>>

\* Timestamp.dayofweek: 0 = Monday .. 6 = Sunday
dayofweek(t) == t % 7

\* ----------------------------------------------------------------- numbers
Num(x) == [n |-> x, d |-> 1, r |-> 1]
NaN == [n |-> 0, d |-> 0, r |-> 1]
Div(a, b) == [n |-> a, d |-> b, r |-> 1]
IsNaN(v) == v.d = 0 /\ v.n = 0
IsInf(v) == v.d = 0 /\ v.n # 0

Max(a, b) == IF a >= b THEN a ELSE b
Min(a, b) == IF a <= b THEN a ELSE b

RECURSIVE SumRange(_, _, _)
SumRange(xs, lo, hi) == IF lo > hi THEN 0 ELSE xs[hi] + SumRange(xs, lo, hi - 1)

\* Series.rolling(w).mean() at row i (min_periods = w)
RollingMean(xs, i, w) ==
    IF i < w THEN NaN ELSE Div(SumRange(xs, i - w + 1, i), w)

\* variant: the deviation over the 5-bar window of the moving average
RollingStd_ShortWindow(xs, i, w) ==
    IF i < MA_WINDOW THEN NaN
    ELSE LET s == SumRange(xs, i - MA_WINDOW + 1, i)
             q == SumRange([j \in 1..Len(xs) |-> xs[j] * xs[j]], i - MA_WINDOW + 1, i)
         IN [n |-> MA_WINDOW * q - s * s, d |-> MA_WINDOW * (MA_WINDOW - 1), r |-> 2]

\* Series.rolling(w).std() at row i: the sample deviation (ddof = 1),
\* sqrt((w * sum(x^2) - sum(x)^2) / (w * (w - 1)))
RollingStd(xs, i, w) ==
    IF i < w THEN NaN
    ELSE LET s == SumRange(xs, i - w + 1, i)
             q == SumRange([j \in 1..Len(xs) |-> xs[j] * xs[j]], i - w + 1, i)
         IN [n |-> w * q - s * s, d |-> w * (w - 1), r |-> 2]

\* Series.shift(k) at row i
Shift(xs, i, k) ==
    IF i - k < 1 \/ i - k > Len(xs) THEN NaN ELSE Num(xs[i - k])

\* variant: a division by zero always gives an infinity
DivByValue_ZeroIsInf(x, v) ==
    IF IsNaN(v) THEN NaN
    ELSE IF v.n = 0 THEN Div(1, 0)
    ELSE Div(x * v.d, v.n)

\* int Series / float Series, elementwise: x / (n/d) = x*d / n
DivByValue(x, v) == IF IsNaN(v) THEN NaN ELSE Div(x * v.d, v.n)

\* ------------------------------------------------------ feature derivation
RECURSIVE InsertByDate(_, _)
InsertByDate(sorted, row) ==
    IF sorted = <<>> THEN <<row>>
    ELSE IF sorted[Len(sorted)].date <= row.date THEN Append(sorted, row)
    ELSE Append(InsertByDate(SubSeq(sorted, 1, Len(sorted) - 1), row),
                sorted[Len(sorted)])

RECURSIVE sort_values(_)
sort_values(df) ==
    IF df = <<>> THEN <<>>
    ELSE InsertByDate(sort_values(SubSeq(df, 1, Len(df) - 1)), df[Len(df)])

Column(df, name) == [i \in 1..Len(df) |-> df[i][name]]

\* variant: dropna(subset = the feature columns), the label left out
HasNaN_FeaturesOnly(row) ==
    \/ IsNaN(row.daily_return) \/ IsNaN(row.ma_5) \/ IsNaN(row.volatility_10)
    \/ IsNaN(row.volume_spike) \/ IsNaN(row.lag_close_1) \/ IsNaN(row.hl_range)

\* DataFrame.dropna(): a row goes when any of its values is NaN
\* (an infinite value is not missing)
HasNaN(row) ==
    \/ IsNaN(row.daily_return) \/ IsNaN(row.ma_5) \/ IsNaN(row.volatility_10)
    \/ IsNaN(row.volume_spike) \/ IsNaN(row.lag_close_1) \/ IsNaN(row.hl_range)
    \/ IsNaN(row.next_day_close)

dropna(df) == SelectSeq(df, LAMBDA row : ~HasNaN(row))

\* one row of compute_features before dropna
FeatureRow(df, i) ==
    LET b == df[i]
        close == Column(df, "close")
        volume == Column(df, "volume")
        next_day_close == Shift(close, i, -1)
    IN [symbol |-> b.symbol, date |-> b.date,
        open |-> b.open, high |-> b.high, low |-> b.low,
        close |-> b.close, volume |-> b.volume,
        daily_return |-> Div(b.close - b.open, b.open),
        ma_5 |-> RollingMean(close, i, MA_WINDOW),
        volatility_10 |-> RollingStd(close, i, VOL_WINDOW),
        volume_spike |-> DivByValue(b.volume, RollingMean(volume, i, SPIKE_WINDOW)),
        day_of_week |-> dayofweek(b.date),
        lag_close_1 |-> Shift(close, i, 1),
        hl_range |-> Div(b.high - b.low, b.low),
        next_day_close |-> next_day_close,
        price_up |-> IF ~IsNaN(next_day_close) /\ next_day_close.n > b.close
                     THEN 1 ELSE 0]

compute_features(symbol_df) ==
    LET df == sort_values(symbol_df)
    IN dropna([i \in 1..Len(df) |-> FeatureRow(df, i)])

\* ------------------------------------------------------------ the symbols
\* the tickers of the ingestion batch, in the order of SAMPLE_TICKERS
AllTickers ==
    <<"AAPL", "MSFT", "NVDA", "AMZN", "GOOG", "GOOGL", "META", "JNJ", "NFLX",
      "TSLA", "TSM", "AVGO", "WMT", "LLY", "V", "JPM", "UNH", "XOM", "MA", "COST">>

SAMPLE_TICKERS == SubSeq(AllTickers, 1, NumTickers)

UnknownSymbol == "ZZZZ"

\* the order Python gives these strings (sorted(), groupby keys)
StringOrder ==
    <<"AAPL", "AMZN", "AVGO", "COST", "GOOG", "GOOGL", "JNJ", "JPM", "LLY",
      "MA", "META", "MSFT", "NFLX", "NVDA", "TSLA", "TSM", "UNH", "V", "WMT",
      "XOM", "ZZZZ">>

\* Series.unique(): the distinct symbols of a table
unique(df) == {df[i].symbol : i \in 1..Len(df)}

\* sorted(list of strings)
sorted(S) == SelectSeq(StringOrder, LAMBDA s : s \in S)

RECURSIVE Concat(_)
Concat(frames) ==
    IF frames = <<>> THEN <<>>
    ELSE Concat(SubSeq(frames, 1, Len(frames) - 1)) \o frames[Len(frames)]

\* pd.read_csv(SRC_PATH) followed by df["date"] = pd.to_datetime(df["date"])
ReadRaw(file) == [i \in 1..Len(file) |-> [file[i] EXCEPT !.date = to_datetime(@)]]

\* DataFrame.to_csv: a timestamp is written as "YYYY-MM-DD"
WriteFeatures(df) == [i \in 1..Len(df) |-> [df[i] EXCEPT !.date = strftime(@)]]

\* df.groupby("symbol"): one frame per symbol, rows in their order in df
Group(df, s) == SelectSeq(df, LAMBDA row : row.symbol = s)

\* variant: compute_features applied to the whole table, no grouping
features_df_NoGroup(df) == compute_features(df)

\* df.groupby("symbol").apply(compute_features).reset_index(drop=True):
\* the groups in key order, each run through compute_features
features_df(df) ==
    LET keys == sorted(unique(df))
    IN Concat([k \in 1..Len(keys) |-> compute_features(Group(df, keys[k]))])

\* scripts/data_preparation.py, the whole script
DataPreparation ==
    /\ rawFile.exists
    /\ featFile' = File(WriteFeatures(features_df(ReadRaw(rawFile.rows))))
    /\ UNCHANGED <<rawFile, MODEL, responses, tickerIdx, data, fetched, ingestPc>>

\* ------------------------------------------------------- the raw tables
\* the i-th trading day (Monday to Friday) counted from Monday 2024-01-01
TradingDay(i) == (i - 1) + 2 * ((i - 1) \div 5)

\* the i-th bar of a symbol; c picks the price pattern, the volume is zero
\* on the bars zs .. zs + zl - 1
MkBar(sym, i, c, zs, zl, base) ==
    LET close == base + ((i * c) % 3)
        open == base + ((i + c) % 2)
    IN [symbol |-> sym, date |-> strftime(TradingDay(i)),
        open |-> open, high |-> Max(open, close) + 1,
        low |-> Min(open, close) - 1, close |-> close,
        volume |-> IF zs <= i /\ i < zs + zl THEN 0 ELSE 100 + i]

Series(sym, n, c, zs, zl, base) ==
    [i \in 1..n |-> MkBar(sym, i, c, zs, zl, base)]

Reverse(seq) == [i \in 1..Len(seq) |-> seq[Len(seq) + 1 - i]]
Rotate(seq, k) ==
    IF Len(seq) = 0 THEN seq
    ELSE [i \in 1..Len(seq) |-> seq[((i - 1 + k) % Len(seq)) + 1]]
OddsThenEvens(seq) ==
    SelectSeq([i \in 1..Len(seq) |-> IF i % 2 = 1 THEN <<seq[i]>> ELSE <<>>],
              LAMBDA x : x # <<>>)
    \o SelectSeq([i \in 1..Len(seq) |-> IF i % 2 = 0 THEN <<seq[i]>> ELSE <<>>],
                 LAMBDA x : x # <<>>)
Unwrap(seq) == [i \in 1..Len(seq) |-> seq[i][1]]

Orders == {"asc", "desc", "rotated", "shuffled"}
Reorder(seq, o) ==
    CASE o = "asc" -> seq
      [] o = "desc" -> Reverse(seq)
      [] o = "rotated" -> Rotate(seq, 3)
      [] OTHER -> Unwrap(OddsThenEvens(seq))

\* rows of b with the rows of a mixed in
RECURSIVE Interleave(_, _)
Interleave(a, b) ==
    IF a = <<>> THEN b
    ELSE IF b = <<>> THEN a
    ELSE <<a[1], b[1]>> \o Interleave(Tail(a), Tail(b))

Mixes == {"alone", "before", "after", "interleaved"}
Mix(a, b, m) ==
    CASE m = "alone" -> b
      [] m = "before" -> a \o b
      [] m = "after" -> b \o a
      [] OTHER -> Interleave(a, b)

ZeroRuns == {<<0, 0>>} \cup {<<zs, zl>> : zs \in 1..MaxBars, zl \in {SPIKE_WINDOW, SPIKE_WINDOW + 1}}

RawTables ==
    { File(Mix(Reorder(Series("AAPL", MaxOther, 1, 0, 0, 40), o),
          Reorder(Series("MSFT", n, c, z[1], z[2], 10), o), m)) :
        n \in 0..MaxBars, c \in 1..2, z \in ZeroRuns, o \in Orders, m \in Mixes }

InitPrep ==
    /\ rawFile \in RawTables
    /\ featFile = NoFile
    /\ MODEL = "unstarted"
    /\ responses = {}
    /\ tickerIdx = NumTickers + 1
    /\ data = <<>>
    /\ fetched = {}
    /\ ingestPc = "done"

NextPrep == DataPreparation

SpecPrep == InitPrep /\ [][NextPrep]_vars

\* --------------------------------------------------------------- ingestion
\* scripts/data_ingestion.py from the loop on (the script stops before it
\* when FMP_API_KEY is not set).  What the provider returns for a ticker is
\* an input: an error (the fetch raises), an empty list, or the bars of the
\* ticker, newest first.
ProviderResponses(k) ==
    { <<>>,
      Reverse(Series(SAMPLE_TICKERS[k], MaxBars - (k % 2), 1 + (k % 2),
                     IF k = 2 THEN 3 ELSE 0, SPIKE_WINDOW, 10 * k)) }

\* one iteration of the loop whose fetch returns (res)
FetchOk ==
    /\ ingestPc = "loop"
    /\ tickerIdx <= Len(SAMPLE_TICKERS)
    /\ \E res \in ProviderResponses(tickerIdx) : data' = Append(data, res)
    /\ fetched' = fetched \cup {SAMPLE_TICKERS[tickerIdx]}
    /\ tickerIdx' = tickerIdx + 1
    /\ UNCHANGED <<rawFile, featFile, MODEL, responses, ingestPc>>

\* one iteration of the loop whose fetch raises: caught, printed
FetchFail ==
    /\ ingestPc = "loop"
    /\ tickerIdx <= Len(SAMPLE_TICKERS)
    /\ tickerIdx' = tickerIdx + 1
    /\ UNCHANGED <<rawFile, featFile, MODEL, responses, data, fetched, ingestPc>>

\* pd.concat(data) raises ValueError when data is empty; the frame of an
\* empty list has no columns, so when every frame is empty the assignment of
\* the 7 column names raises ValueError
ConcatRaises == data = <<>>
RenameRaises == \A i \in 1..Len(data) : data[i] = <<>>

\* after the loop: concatenate, name the columns, write the raw price file
WriteRaw ==
    /\ ingestPc = "loop"
    /\ tickerIdx > Len(SAMPLE_TICKERS)
    /\ IF ConcatRaises \/ RenameRaises
       THEN /\ ingestPc' = "crashed"
            /\ UNCHANGED rawFile
       ELSE /\ ingestPc' = "done"
            /\ rawFile' = File(Concat(data))
    /\ UNCHANGED <<featFile, MODEL, responses, tickerIdx, data, fetched>>

\* ----------------------------------------------------------------- serving
FEATURE_COLUMNS ==
    <<"daily_return", "ma_5", "volatility_10", "volume_spike", "day_of_week",
      "lag_close_1", "hl_range">>

\* The classifier is an artifact outside the repository: a deterministic
\* function of the feature vector.  Two stand-ins, probabilities in percent.
Classifiers == {"by_return", "by_weekday"}

ModelPredict(m, x) ==
    IF m = "by_return" THEN (IF x[1].n > 0 THEN 1 ELSE 0)
    ELSE (IF x[5] % 2 = 0 THEN 1 ELSE 0)

ModelPredictProba(m, x) ==
    IF m = "by_return" THEN (IF x[1].n > 0 THEN <<30, 70>> ELSE <<60, 40>>)
    ELSE (IF x[5] % 2 = 0 THEN <<45, 55>> ELSE <<90 - 5 * x[5], 10 + 5 * x[5]>>)

\* import of app.main: the model loads, or the load fails and MODEL is None
Startup ==
    /\ MODEL = "unstarted"
    /\ MODEL' \in {"None"} \cup Classifiers
    /\ UNCHANGED <<rawFile, featFile, responses, tickerIdx, data, fetched, ingestPc>>

\* variant: every weekend day is moved by two days
PredictionDate_PlusTwo(date) ==
    LET prediction_date == to_datetime(date) + 1
    IN IF dayofweek(prediction_date) >= WEEKEND
       THEN prediction_date + 2
       ELSE prediction_date

\* date of the latest row + 1 day, moved to Monday when on a weekend
PredictionDate(date) ==
    LET prediction_date == to_datetime(date) + 1
    IN IF dayofweek(prediction_date) >= WEEKEND
       THEN prediction_date + (7 - dayofweek(prediction_date))
       ELSE prediction_date

\* symbol_df.iloc[-1]
LatestData(symbol_df) == symbol_df[Len(symbol_df)]

\* An entry of the log: the request, the response (status, detail, body)
\* and what handling it touched (read: the feature file was opened;
\* invoked: the classifier was called).
Entry(endpoint, symbol, status, detail, body, read, invoked) ==
    [endpoint |-> endpoint, symbol |-> symbol, status |-> status,
     detail |-> detail, body |-> body, read |-> read, invoked |-> invoked]

NoBody == [prediction |-> "", confidence |-> 0, predicted_date |-> <<>>,
           symbols |-> <<>>, message |-> ""]

PredictionBody(symbol, latest_data, m) ==
    LET features_array == [c \in 1..Len(FEATURE_COLUMNS) |-> latest_data[FEATURE_COLUMNS[c]]]
        prediction_value == ModelPredict(m, features_array)
        prediction_proba == ModelPredictProba(m, features_array)
        confidence == prediction_proba[prediction_value + 1]
    IN [NoBody EXCEPT
            !.prediction = IF prediction_value = 1 THEN "UP" ELSE "DOWN",
            !.confidence = confidence,
            !.predicted_date = strftime(PredictionDate(latest_data.date))]

\* variant: the feature file is read before the model is looked at
PredictResponse_ReadFirst(symbol) ==
    IF ~featFile.exists
    THEN Entry("predict", symbol, 500, "An error occurred during prediction",
               NoBody, TRUE, FALSE)
    ELSE IF symbol \notin unique(featFile.rows)
    THEN Entry("predict", symbol, 404, "Symbol not found", NoBody, TRUE, FALSE)
    ELSE IF MODEL = "None"
    THEN Entry("predict", symbol, 500, "Model not loaded", NoBody, TRUE, FALSE)
    ELSE Entry("predict", symbol, 200, "",
               PredictionBody(symbol, LatestData(Group(featFile.rows, symbol)), MODEL),
               TRUE, TRUE)

\* variant: the catch-all turns the 404 into a 500
PredictResponse_CatchAll(symbol) ==
    IF MODEL = "None"
    THEN Entry("predict", symbol, 500, "Model not loaded", NoBody, FALSE, FALSE)
    ELSE IF ~featFile.exists \/ symbol \notin unique(featFile.rows)
    THEN Entry("predict", symbol, 500, "An error occurred during prediction",
               NoBody, TRUE, FALSE)
    ELSE Entry("predict", symbol, 200, "",
               PredictionBody(symbol, LatestData(Group(featFile.rows, symbol)), MODEL),
               TRUE, TRUE)

\* GET /predict/{symbol}
PredictResponse(symbol) ==
    IF MODEL = "None"
    THEN Entry("predict", symbol, 500, "Model not loaded", NoBody, FALSE, FALSE)
    ELSE IF ~featFile.exists
    THEN Entry("predict", symbol, 500, "An error occurred during prediction",
               NoBody, TRUE, FALSE)
    ELSE IF symbol \notin unique(featFile.rows)
    THEN Entry("predict", symbol, 404, "Symbol not found", NoBody, TRUE, FALSE)
    ELSE Entry("predict", symbol, 200, "",
               PredictionBody(symbol, LatestData(Group(featFile.rows, symbol)), MODEL),
               TRUE, TRUE)

\* GET /symbols
SymbolsResponse ==
    IF ~featFile.exists
    THEN Entry("symbols", "", 500, "Error retrieving symbols", NoBody, TRUE, FALSE)
    ELSE Entry("symbols", "", 200, "",
               [NoBody EXCEPT !.symbols = sorted(unique(featFile.rows))], TRUE, FALSE)

\* GET /health
HealthResponse ==
    IF MODEL = "None"
    THEN Entry("health", "", 200, "degraded",
               [NoBody EXCEPT !.message = "Model not loaded properly"], FALSE, FALSE)
    ELSE IF featFile.exists
    THEN Entry("health", "", 200, "healthy",
               [NoBody EXCEPT !.message = "API is fully operational"], FALSE, FALSE)
    ELSE Entry("health", "", 200, "degraded",
               [NoBody EXCEPT !.message = "Stock data file not found"], FALSE, FALSE)

Respond(entry) ==
    /\ MODEL # "unstarted"
    /\ Cardinality(responses \cup {entry}) <= MaxRequests
    /\ responses' = responses \cup {entry}
    /\ UNCHANGED <<rawFile, featFile, MODEL, tickerIdx, data, fetched, ingestPc>>

RequestSymbols == {SAMPLE_TICKERS[1], SAMPLE_TICKERS[2], UnknownSymbol}

Predict(symbol) == Respond(PredictResponse(symbol))
GetAvailableSymbols == Respond(SymbolsResponse)
HealthCheck == Respond(HealthResponse)

\* ------------------------------------------------------------ the pipeline
Init ==
    /\ rawFile = NoFile
    /\ featFile = NoFile
    /\ MODEL = "unstarted"
    /\ responses = {}
    /\ tickerIdx = 1
    /\ data = <<>>
    /\ fetched = {}
    /\ ingestPc = "loop"

Next ==
    \/ FetchFail
    \/ FetchOk
    \/ WriteRaw
    \/ DataPreparation
    \/ Startup
    \/ \E symbol \in RequestSymbols : Predict(symbol)
    \/ GetAvailableSymbols
    \/ HealthCheck

Spec == Init /\ [][Next]_vars

\* ------------------------------------------------- the service on any file
\* The feature file is an input of the service: any table with the columns
\* of stock_features.csv, in any row order.  A row of such a table:
MkFeatureRow(sym, t, k) ==
    [symbol |-> sym, date |-> strftime(t),
     open |-> 10, high |-> 12 + k, low |-> 9, close |-> 10 + k, volume |-> 100,
     daily_return |-> Div(k - 1, 10), ma_5 |-> Div(50 + k, 5),
     volatility_10 |-> [n |-> 90 * k, d |-> 90, r |-> 2],
     volume_spike |-> Div(500, 500), day_of_week |-> dayofweek(t),
     lag_close_1 |-> Num(10), hl_range |-> Div(3 + k, 9),
     next_day_close |-> Num(11), price_up |-> 1]

MaxDay == 6

ServeTables ==
    { File(Reorder(<<MkFeatureRow("AAPL", t, 0), MkFeatureRow("AAPL", t + 1, 1),
                     MkFeatureRow("AAPL", t + 2, 2)>>, o)
           \o <<MkFeatureRow("MSFT", t + 3, 1)>>) :
        t \in 0..MaxDay, o \in {"asc", "desc"} }

\* the feature file is deleted
RemoveFeatureFile ==
    /\ featFile.exists
    /\ featFile' = NoFile
    /\ UNCHANGED <<rawFile, MODEL, responses, tickerIdx, data, fetched, ingestPc>>

InitServe ==
    /\ rawFile \in {NoFile, File(Series("AAPL", MaxBars, 1, 0, 0, 10))}
    /\ featFile \in ServeTables \cup {NoFile}
    /\ MODEL = "unstarted"
    /\ responses = {}
    /\ tickerIdx = NumTickers + 1
    /\ data = <<>>
    /\ fetched = {}
    /\ ingestPc = "done"

NextServe ==
    \/ Startup
    \/ \E symbol \in RequestSymbols : Predict(symbol)
    \/ GetAvailableSymbols
    \/ HealthCheck
    \/ DataPreparation
    \/ RemoveFeatureFile

SpecServe == InitServe /\ [][NextServe]_vars

\* ------------------------------------------- the derivation, stated on sets
\* These definitions state what the feature table of a symbol has to be in
\* terms of the SET of the symbol's bars; they are used by the properties
\* only, never by the actions.
ParsedBars(s) ==
    {[b EXCEPT !.date = to_datetime(@)] :
        b \in {rawFile.rows[i] : i \in {j \in 1..Len(rawFile.rows) : rawFile.rows[j].symbol = s}}}

RawSymbols == {rawFile.rows[i].symbol : i \in 1..Len(rawFile.rows)}

\* position of bar b in date order among the bars S, from 1
Pos(S, b) == Cardinality({x \in S : x.date <= b.date})

\* the w bars of S ending at b (fewer when b has less history)
Trailing(S, b, w) == {x \in S : x.date <= b.date /\ Pos(S, b) - Pos(S, x) < w}

RECURSIVE SumOver(_, _)
SumOver(S, field) ==
    IF S = {} THEN 0
    ELSE LET x == CHOOSE y \in S : TRUE
         IN x[field] + SumOver(S \ {x}, field)

RECURSIVE SumSquares(_, _)
SumSquares(S, field) ==
    IF S = {} THEN 0
    ELSE LET x == CHOOSE y \in S : TRUE
         IN x[field] * x[field] + SumSquares(S \ {x}, field)

\* a bar has a feature row iff it has 9 bars before it, one after it, and
\* the 5 bars ending at it do not all have zero volume
Derivable(S, b) ==
    /\ Pos(S, b) >= VOL_WINDOW
    /\ Pos(S, b) < Cardinality(S)
    /\ SumOver(Trailing(S, b, SPIKE_WINDOW), "volume") # 0

ExpectedRow(S, b) ==
    LET prev == CHOOSE x \in S : Pos(S, x) = Pos(S, b) - 1
        next == CHOOSE x \in S : Pos(S, x) = Pos(S, b) + 1
        w5 == Trailing(S, b, MA_WINDOW)
        w10 == Trailing(S, b, VOL_WINDOW)
    IN [symbol |-> b.symbol, date |-> strftime(b.date),
        open |-> b.open, high |-> b.high, low |-> b.low,
        close |-> b.close, volume |-> b.volume,
        daily_return |-> [n |-> b.close - b.open, d |-> b.open, r |-> 1],
        ma_5 |-> [n |-> SumOver(w5, "close"), d |-> 5, r |-> 1],
        volatility_10 |->
            [n |-> 10 * SumSquares(w10, "close")
                   - SumOver(w10, "close") * SumOver(w10, "close"),
             d |-> 90, r |-> 2],
        volume_spike |-> [n |-> b.volume * 5, d |-> SumOver(w5, "volume"), r |-> 1],
        day_of_week |-> b.date % 7,
        lag_close_1 |-> [n |-> prev.close, d |-> 1, r |-> 1],
        hl_range |-> [n |-> b.high - b.low, d |-> b.low, r |-> 1],
        next_day_close |-> [n |-> next.close, d |-> 1, r |-> 1],
        price_up |-> IF next.close > b.close THEN 1 ELSE 0]

\* the rows of symbol s in the feature file, in file order
FeatRowsOf(s) == SelectSeq(featFile.rows, LAMBDA row : row.symbol = s)
FeatDatesOf(s) == {to_datetime(FeatRowsOf(s)[i].date) : i \in 1..Len(FeatRowsOf(s))}

Finite(v) == v.d # 0

AllFinite(row) ==
    /\ Finite(row.daily_return) /\ Finite(row.ma_5) /\ Finite(row.volatility_10)
    /\ Finite(row.volume_spike) /\ Finite(row.lag_close_1) /\ Finite(row.hl_range)

\* ---------------------------------------------------------------- claims
\* C3 (as stated): a symbol with N bars gets exactly N-10 feature rows when
\* N >= 10 (the label columns are always computed) and none when N <= 9; the
\* rows dropped are exactly the first 9 in date order and the last one.
C3_ExactRowCount ==
    featFile.exists =>
        \A s \in RawSymbols :
            LET S == ParsedBars(s)
                N == Cardinality(S)
            IN /\ Len(FeatRowsOf(s)) = (IF N >= 10 THEN N - 10 ELSE 0)
               /\ FeatDatesOf(s) = {b.date : b \in {x \in S : Pos(S, x) >= 10 /\ Pos(S, x) < N}}

\* C3 (amended): a symbol with N bars gets exactly the rows of the bars at
\* positions 10 .. N-1 in date order whose trailing 5 bars do not all have
\* zero volume; that is N-10 rows (none when N <= 10) unless five
\* consecutive zero-volume bars end at one of these positions.
C3_RowsKept ==
    featFile.exists =>
        \A s \in RawSymbols :
            LET S == ParsedBars(s)
                N == Cardinality(S)
                kept == {b \in S : Derivable(S, b)}
                zeroed == {b \in S : /\ Pos(S, b) >= 10 /\ Pos(S, b) < N
                                     /\ SumOver(Trailing(S, b, 5), "volume") = 0}
            IN /\ FeatDatesOf(s) = {b.date : b \in kept}
               /\ Len(FeatRowsOf(s)) = Cardinality(kept)
               /\ Len(FeatRowsOf(s)) = (IF N >= 10 THEN N - 10 ELSE 0) - Cardinality(zeroed)
               /\ N <= 10 => Len(FeatRowsOf(s)) = 0

\* a symbol with at least 12 bars, a feature row, and a row lost to a run of
\* zero volume
C3_Witness ==
    /\ featFile.exists
    /\ \E s \in RawSymbols :
          LET N == Cardinality(ParsedBars(s))
          IN N >= 12 /\ Len(FeatRowsOf(s)) >= 1 /\ Len(FeatRowsOf(s)) < N - 10

\* C6: no row of the feature table has an undefined or infinite feature;
\* a bar whose trailing 5-bar mean of volume is zero has an undefined
\* volume_spike and no row in the table.
C6_NoUndefinedFeature ==
    featFile.exists =>
        /\ \A i \in 1..Len(featFile.rows) : AllFinite(featFile.rows[i])
        /\ \A s \in RawSymbols :
              LET S == ParsedBars(s)
                  df == sort_values(Group(ReadRaw(rawFile.rows), s))
              IN \A i \in 1..Len(df) :
                    (i >= 5 /\ SumOver(Trailing(S, df[i], 5), "volume") = 0)
                    => /\ IsNaN(FeatureRow(df, i).volume_spike)
                       /\ df[i].date \notin FeatDatesOf(s)

\* a bar with 9 bars before it and one after it whose trailing 5 volumes are
\* all zero, in a table that has a row of the same symbol
C6_Witness ==
    /\ featFile.exists
    /\ \E s \in RawSymbols :
          LET S == ParsedBars(s)
          IN /\ Len(FeatRowsOf(s)) >= 1
             /\ \E b \in S : /\ Pos(S, b) >= 10 /\ Pos(S, b) < Cardinality(S)
                             /\ SumOver(Trailing(S, b, 5), "volume") = 0

\* C7: the feature rows of a symbol are determined by the set of the
\* symbol's bars alone, whatever the order of the raw table and whatever
\* other symbols are mixed into it, and they come out in ascending date
\* order.
C7_PerSymbolFunction ==
    featFile.exists =>
        \A s \in RawSymbols :
            LET S == ParsedBars(s)
                rows == FeatRowsOf(s)
            IN /\ \A i \in 1..Len(rows) :
                     \E b \in S : Derivable(S, b) /\ rows[i] = ExpectedRow(S, b)
               /\ \A b \in S : Derivable(S, b) =>
                     \E i \in 1..Len(rows) : rows[i] = ExpectedRow(S, b)
               /\ \A i \in 1..Len(rows) - 1 :
                     to_datetime(rows[i].date) < to_datetime(rows[i + 1].date)

\* a raw table where the rows of a symbol are out of date order and next to
\* rows of another symbol, and the symbol has two feature rows
C7_Witness ==
    /\ featFile.exists
    /\ \E s \in RawSymbols :
          /\ Len(FeatRowsOf(s)) >= 2
          /\ \E i \in 1..Len(rawFile.rows) - 1 :
                /\ rawFile.rows[i].symbol = s
                /\ rawFile.rows[i + 1].symbol # s
          /\ \E i, j \in 1..Len(rawFile.rows) :
                /\ i < j
                /\ rawFile.rows[i].symbol = s /\ rawFile.rows[j].symbol = s
                /\ to_datetime(rawFile.rows[i].date) > to_datetime(rawFile.rows[j].date)

\* ------------------------------------------------- claims on the service
\* the entries a step adds to the log
NewEntries == responses' \ responses

\* the row of symbol s with the greatest date
MaxDateRow(rows, s) ==
    CHOOSE r \in {rows[i] : i \in {j \in 1..Len(rows) : rows[j].symbol = s}} :
        \A i \in 1..Len(rows) :
            rows[i].symbol = s => to_datetime(rows[i].date) <= to_datetime(r.date)

\* the earliest day strictly after t that is a weekday
NextWeekday(t) ==
    CHOOSE u \in (t + 1)..(t + 7) :
        /\ u % 7 < 5
        /\ \A v \in (t + 1)..(u - 1) : v % 7 >= 5

\* C1: a successful prediction is computed from the row of the symbol with
\* the greatest date, whatever the order of the rows of the feature file.
C1_LatestByMaxDate ==
    [][\A e \in NewEntries :
          (e.endpoint = "predict" /\ e.status = 200) =>
              e.body = PredictionBody(e.symbol, MaxDateRow(featFile.rows, e.symbol), MODEL)]_vars

\* C2: predicted_date is the earliest weekday strictly after the date d of
\* the latest row: d+3 from a Friday, d+2 from a Saturday, d+1 otherwise;
\* it is never a Saturday or a Sunday.
C2_NextTradingDay ==
    [][\A e \in NewEntries :
          (e.endpoint = "predict" /\ e.status = 200) =>
              LET d == to_datetime(LatestData(Group(featFile.rows, e.symbol)).date)
                  p == to_datetime(e.body.predicted_date)
              IN /\ p = NextWeekday(d)
                 /\ p = d + (CASE d % 7 = 4 -> 3 [] d % 7 = 5 -> 2 [] OTHER -> 1)
                 /\ p % 7 < 5
                 /\ e.body.predicted_date = strftime(p)]_vars

\* predictions made from a latest row dated a Friday and from one dated a
\* Saturday, answered with the following Monday
C2_Witness ==
    /\ featFile.exists
    /\ \E e \in responses :
          /\ e.endpoint = "predict" /\ e.status = 200
          /\ e.symbol \in unique(featFile.rows)
          /\ to_datetime(LatestData(Group(featFile.rows, e.symbol)).date) % 7 = 4
          /\ to_datetime(e.body.predicted_date)
                = to_datetime(LatestData(Group(featFile.rows, e.symbol)).date) + 3
    /\ \E e \in responses :
          /\ e.endpoint = "predict" /\ e.status = 200
          /\ e.symbol \in unique(featFile.rows)
          /\ to_datetime(LatestData(Group(featFile.rows, e.symbol)).date) % 7 = 5
          /\ to_datetime(e.body.predicted_date)
                = to_datetime(LatestData(Group(featFile.rows, e.symbol)).date) + 2

\* C4: when the classifier failed to load, the service runs, every
\* prediction request fails with the "Model not loaded" error without
\* opening the feature file or calling the classifier, and /symbols answers
\* with the sorted symbols whenever the feature file is there.
C4_FailFastWithoutModel ==
    [][MODEL = "None" =>
          \A e \in NewEntries :
              /\ e.endpoint = "predict" =>
                    /\ e.status = 500 /\ e.detail = "Model not loaded"
                    /\ ~e.read /\ ~e.invoked
              /\ (e.endpoint = "symbols" /\ featFile.exists) =>
                    /\ e.status = 200
                    /\ e.body.symbols = sorted({featFile.rows[i].symbol : i \in 1..Len(featFile.rows)})]_vars

\* without a classifier: a prediction request for a symbol of the feature
\* file has failed and a /symbols request has succeeded
C4_Witness ==
    /\ MODEL = "None"
    /\ featFile.exists
    /\ \E e \in responses :
          /\ e.endpoint = "predict" /\ e.status = 500
          /\ e.symbol \in unique(featFile.rows)
    /\ \E e \in responses : e.endpoint = "symbols" /\ e.status = 200

\* C5 (as stated): every prediction request for a symbol without a row in
\* the feature table ends in 404.
C5_UnknownSymbolAlways404 ==
    [][\A e \in NewEntries :
          (e.endpoint = "predict"
           /\ \A i \in 1..Len(featFile.rows) : featFile.rows[i].symbol # e.symbol)
          => e.status = 404]_vars

\* C5 (amended): a prediction request for a symbol without a row in the
\* feature table never ends in 200; it ends in 404 when the classifier is
\* loaded and the feature file can be read (else in 500), and the 404 is not
\* turned into a 500.
C5_UnknownSymbol404 ==
    [][\A e \in NewEntries :
          (e.endpoint = "predict"
           /\ \A i \in 1..Len(featFile.rows) : featFile.rows[i].symbol # e.symbol)
          => /\ e.status # 200
             /\ (MODEL # "None" /\ featFile.exists) => e.status = 404
             /\ ~(MODEL # "None" /\ featFile.exists) => e.status = 500]_vars

\* with the classifier loaded and a feature file with rows, a request for a
\* symbol that is not in it was answered 404
C5_Witness ==
    /\ MODEL \in Classifiers
    /\ featFile.exists /\ Len(featFile.rows) > 0
    /\ \E e \in responses :
          /\ e.endpoint = "predict" /\ e.status = 404
          /\ e.symbol \notin unique(featFile.rows)

\* C9: two prediction requests for the same symbol get the same result,
\* whatever happens to the feature file between them.
C9_SameResultPerSymbol ==
    \A e1, e2 \in responses :
        (e1.endpoint = "predict" /\ e2.endpoint = "predict" /\ e1.symbol = e2.symbol)
        => (e1.status = e2.status /\ e1.body = e2.body)

\* ------------------------------------------------ claims on the pipeline
\* C8: whatever tickers fail, the batch ends having written the raw price
\* file with the rows of exactly the tickers whose fetch returned.
C8_BatchAlwaysWrites ==
    ingestPc # "loop" =>
        /\ ingestPc = "done"
        /\ rawFile.exists
        /\ rawFile.rows = Concat(data)
        /\ unique(rawFile.rows) \subseteq fetched

\* C10: the feature file has no row for the newest bar of a symbol, and a
\* prediction is computed from a bar that is at best the second newest: its
\* predicted_date is the next weekday after that bar, not after the newest.
C10_NewestBarNeverServed ==
    featFile.exists =>
        /\ \A s \in RawSymbols :
              \A b \in ParsedBars(s) :
                  Pos(ParsedBars(s), b) = Cardinality(ParsedBars(s))
                  => b.date \notin FeatDatesOf(s)
        /\ \A e \in responses :
              (e.endpoint = "predict" /\ e.status = 200) =>
                  LET S == ParsedBars(e.symbol)
                      newest == CHOOSE b \in S : Pos(S, b) = Cardinality(S)
                  IN /\ \E b \in S :
                          /\ Pos(S, b) < Cardinality(S)
                          /\ e.body.predicted_date = strftime(NextWeekday(b.date))
                     /\ e.body.predicted_date # strftime(NextWeekday(newest.date))

\* a prediction was served from a feature file derived from the raw file
C10_Witness ==
    /\ featFile.exists
    /\ \E e \in responses :
          /\ e.endpoint = "predict" /\ e.status = 200
          /\ Len(FeatRowsOf(e.symbol)) >= 1
          /\ Cardinality(ParsedBars(e.symbol)) >= 11
====
